---- MODULE Spec2Model ----
(***************************************************************************)
(* State-machine model of the coin-merge world engine of src/src/main.ts.  *)
(*                                                                         *)
(* Coordinates are integers: one unit is a quarter of a grid cell          *)
(* (TILE_DEGREES / 4), so that cell edges, cell centres and the classroom  *)
(* position (which is not a cell centre) are all representable.            *)
(* Distances are computed in centimetres from the metric size of one unit  *)
(* at the classroom latitude.                                              *)
(***************************************************************************)
EXTENDS Integers, Sequences, FiniteSets, TLC

(***************************************************************************)
(* Bounds of the model                                                     *)
(***************************************************************************)
\* the modelled part of the world: rows -SouthRows..NorthRows
NorthRows == 2
SouthRows == 2
\* cap of the history counter of win notifications
MaxAlerts == 2
\* the coordinates the addressing functions are applied to: -MaxCoord..MaxCoord
MaxCoord == 9

(***************************************************************************)
(* Program constants                                                       *)
(***************************************************************************)
\* TILE_DEGREES, in units
TILE_UNITS == 4
\* CACHE_SPAWN_PROBABILITY (0.1), in millionths
CACHE_SPAWN_MICRO == 100000
\* PLAYER_RANGE_METERS (30 m), in centimetres
PLAYER_RANGE_CM == 3000
COIN_VALUES == <<1, 2, 4, 8, 16, 32, 64, 128>>
\* the value whose merge raises the win alert
WIN_VALUE == 256
\* metric size of one unit: 1e-4 degrees of latitude are 11.13 m, and
\* 1e-4 degrees of longitude at latitude 37 are 8.89 m
LAT_CM_PER_UNIT == 278
LNG_CM_PER_UNIT == 222
\* playerHeldCoin === null
NullCoin == -1
\* geoWatchId === null
NoWatch == 0

\* navigator.geolocation.watchPosition: the id it returns, one that no
\* registered watch has (the least such positive number)
watchPosition(ws) ==
  CHOOSE id \in 1..(Cardinality(ws) + 1) :
     id \notin ws /\ \A n \in 1..(id - 1) : n \in ws

\* navigator.geolocation.clearWatch(id): the watches left
clearWatch(ws, id) == ws \ {id}

\* CLASSROOM_LATLNG: strictly inside its cell, off the centre
CLASSROOM_LATLNG == [lat |-> 1, lng |-> -1]

\* half extent of the map viewport (map.getBounds()) around the map centre
VIEW_HALF_LAT == 8
VIEW_HALF_LNG == 4

Rows == (0 - SouthRows)..NorthRows
Cols == (-1)..0
Cells == [i : Rows, j : Cols]

(***************************************************************************)
(* HELPERS                                                                 *)
(***************************************************************************)
keyOf(i, j) == <<i, j>>

\* the cell (cache.i, cache.j) a key was made of
cellOfKey(k) == [i |-> k[1], j |-> k[2]]

\* mutant of cellToLatLng: a whole TILE_DEGREES is added, not half of it
cellToLatLngFarEdge(c) ==
  [lat |-> c.i * TILE_UNITS + TILE_UNITS,
   lng |-> c.j * TILE_UNITS + TILE_UNITS]

cellToLatLng(c) ==
  [lat |-> c.i * TILE_UNITS + TILE_UNITS \div 2,
   lng |-> c.j * TILE_UNITS + TILE_UNITS \div 2]

\* x / TILE_DEGREES cut toward zero, as Math.trunc and | 0 do
truncDiv(x, d) == IF x >= 0 THEN x \div d ELSE 0 - ((0 - x) \div d)

\* mutant of latLngToCell: the quotient is truncated
latLngToCellTruncates(p) ==
  [i |-> truncDiv(p.lat, TILE_UNITS), j |-> truncDiv(p.lng, TILE_UNITS)]

\* Math.floor(x / TILE_DEGREES): \div rounds toward negative infinity
latLngToCell(p) ==
  [i |-> p.lat \div TILE_UNITS, j |-> p.lng \div TILE_UNITS]

\* luck(key) of _luck.ts, in millionths: a fixed hash of the cell into
\* 0..999999
luckMicro(i, j) ==
  ((2 * i + j + 5) * 12501 + j * (j + 1) * 250000) % 1000000

shouldSpawnCache(i, j) == luckMicro(i, j) < CACHE_SPAWN_MICRO

pickCacheValue(i, j) == COIN_VALUES[(luckMicro(i, j) % Len(COIN_VALUES)) + 1]

\* playerPos.distanceTo(cachePos), squared, in cm^2
distanceSq(p, q) ==
  ((p.lat - q.lat) * LAT_CM_PER_UNIT) * ((p.lat - q.lat) * LAT_CM_PER_UNIT)
  + ((p.lng - q.lng) * LNG_CM_PER_UNIT) * ((p.lng - q.lng) * LNG_CM_PER_UNIT)

\* distance <= PLAYER_RANGE_METERS
inRange(p, c) ==
  distanceSq(p, cellToLatLng(c)) <= PLAYER_RANGE_CM * PLAYER_RANGE_CM

(***************************************************************************)
(* Map<string, V> as a sequence of <<key, value>> entries in insertion     *)
(* order                                                                   *)
(***************************************************************************)
MapKeys(m) == {m[n][1] : n \in 1..Len(m)}

MapHas(m, k) == k \in MapKeys(m)

MapGet(m, k) == m[CHOOSE n \in 1..Len(m) : m[n][1] = k][2]

\* Map.prototype.set: replaces in place, or appends
MapSet(m, k, v) ==
  IF MapHas(m, k)
  THEN [n \in 1..Len(m) |-> IF m[n][1] = k THEN <<k, v>> ELSE m[n]]
  ELSE Append(m, <<k, v>>)

\* modifiedCacheState.get(key)?.pickedUp ?? false
isPickedUp(m, k) == \E n \in 1..Len(m) : m[n][1] = k /\ m[n][2].pickedUp

\* the overlay as a key -> flag function, forgetting insertion order
OverlayFlags(m) == [k \in MapKeys(m) |-> MapGet(m, k).pickedUp]

(***************************************************************************)
(* DATA STORES                                                             *)
(***************************************************************************)
\* getCellValue: the value returned, and the memo after the call
getCellValue(memo, i, j) ==
  IF keyOf(i, j) \in DOMAIN memo THEN memo[keyOf(i, j)] ELSE pickCacheValue(i, j)

memoAfterGet(memo, i, j) ==
  IF keyOf(i, j) \in DOMAIN memo
  THEN memo
  ELSE [k \in DOMAIN memo \cup {keyOf(i, j)} |->
          IF k = keyOf(i, j) THEN pickCacheValue(i, j) ELSE memo[k]]

\* pickedUp ? 0 : getCellValue(i, j)
currentValue(overlay, memo, c) ==
  IF isPickedUp(overlay, keyOf(c.i, c.j)) THEN 0 ELSE getCellValue(memo, c.i, c.j)

(***************************************************************************)
(* LOCAL STORAGE                                                           *)
(*                                                                         *)
(* The stored item "gameState": present or not; when present, whether      *)
(* JSON.parse yields an object, whether that object has a playerCell, and  *)
(* whether it has a modifiedCacheState array.                              *)
(***************************************************************************)
NoItem ==
  [present |-> FALSE, parses |-> FALSE, hasCell |-> FALSE,
   playerCell |-> latLngToCell(CLASSROOM_LATLNG), playerHeldCoin |-> NullCoin,
   hasOverlay |-> FALSE, modifiedCacheState |-> <<>>]

\* mutant of saveGameState: the Map itself is handed to JSON.stringify, which
\* writes it as an empty object
saveGameStateMapAsObject(cell, held, overlay) ==
  [present |-> TRUE, parses |-> TRUE, hasCell |-> TRUE,
   playerCell |-> [i |-> cell.i, j |-> cell.j], playerHeldCoin |-> held,
   hasOverlay |-> FALSE, modifiedCacheState |-> <<>>]

\* JSON.stringify(state) of saveGameState: the Map becomes the array of its
\* entries, in insertion order
saveGameState(cell, held, overlay) ==
  [present |-> TRUE, parses |-> TRUE, hasCell |-> TRUE,
   playerCell |-> [i |-> cell.i, j |-> cell.j], playerHeldCoin |-> held,
   hasOverlay |-> TRUE,
   modifiedCacheState |-> [n \in 1..Len(overlay) |-> <<overlay[n][1], overlay[n][2]>>]]

\* state.modifiedCacheState.forEach(([key, value]) => map.set(key, value))
RECURSIVE setEntries(_, _)
setEntries(arr, m) ==
  IF arr = <<>> THEN m
  ELSE setEntries(Tail(arr), MapSet(m, Head(arr)[1], Head(arr)[2]))

\* mutant of loadGameState: the held coin is not restored
loadGameStateNoCoin(cur, item) ==
  IF ~(item.present /\ item.parses /\ item.hasCell) THEN cur
  ELSE [playerCell |-> item.playerCell, held |-> cur.held,
        overlay |-> IF item.hasOverlay
                    THEN setEntries(item.modifiedCacheState, <<>>) ELSE <<>>]

\* loadGameState, run on the state cur: returns the state after it.  An
\* exception leaves what was assigned before it was thrown.
loadGameState(cur, item) ==
  IF ~item.present THEN cur
  ELSE IF ~item.parses THEN cur
  ELSE IF ~item.hasCell THEN cur
  ELSE IF ~item.hasOverlay
       THEN [playerCell |-> item.playerCell, held |-> item.playerHeldCoin,
             overlay |-> <<>>]
  ELSE [playerCell |-> item.playerCell, held |-> item.playerHeldCoin,
        overlay |-> setEntries(item.modifiedCacheState, <<>>)]

\* PLAYER SETUP: the module-level initial values
defaultState ==
  [playerCell |-> latLngToCell(CLASSROOM_LATLNG), held |-> 1, overlay |-> <<>>]

(***************************************************************************)
(* State                                                                   *)
(***************************************************************************)
VARIABLES
  playerCell,         \* GridCell of the player
  playerHeldCoin,     \* number | null
  modifiedCacheState, \* Map key -> {pickedUp}
  cellValues,         \* Map key -> memoized default value
  playerMarker,       \* playerMarker.getLatLng()
  mapCenter,          \* centre of the map view
  visibleCaches,      \* Map key -> render object: value shown, popup bound
  popup,              \* the open popup: its cache's key, whether it is still
                      \* bound to the circle, whether that cache object has
                      \* been removed from the map, its #message text, and
                      \* (history) the branch of handleCachePickup that
                      \* wrote that text
  storage,            \* localStorage item "gameState"
  geoEnabled,         \* the toggle flag
  geoWatchId,         \* number | null: the id watchPosition returned
  watches,            \* ids of the watches registered with navigator.geolocation
  currentMovement,    \* strategy the facade delegates to
  winAlerts,          \* history: win alerts raised since the game started
  mapLayers,          \* cache layers on the map: per key, how many circles and
                      \* how many value markers
  controlsShown,      \* controlsDiv.style.display is not "none"
  inFlight,           \* a position callback of a cleared watch is still queued
  geoError            \* the last callback of the watch was the error callback

vars ==
  <<playerCell, playerHeldCoin, modifiedCacheState, cellValues, playerMarker,
    mapCenter, visibleCaches, popup, storage, geoEnabled,
    geoWatchId, watches, currentMovement, winAlerts, mapLayers, controlsShown,
    inFlight, geoError>>

\* messageDiv.textContent of the rejecting branch
MISMATCH == "Coin doesn't match value"

NoPopup ==
  [cell |-> <<>>, attached |-> FALSE, stale |-> FALSE, message |-> "",
   branch |-> "none"]

EmptyMap == [k \in {} |-> 0]

(***************************************************************************)
(* VISIBLE CACHES DYNAMIC SPAWN                                            *)
(***************************************************************************)
\* the keys the two loops of updateVisibleCaches keep: cells of the map
\* bounds, widened by one cell, that spawn a cache
windowKeys(center) ==
  LET northWest == latLngToCell([lat |-> center.lat + VIEW_HALF_LAT,
                                 lng |-> center.lng - VIEW_HALF_LNG])
      southEast == latLngToCell([lat |-> center.lat - VIEW_HALF_LAT,
                                 lng |-> center.lng + VIEW_HALF_LNG])
  IN {keyOf(i, j) : <<i, j>> \in
        {<<i, j>> \in ((southEast.i - 1)..(northWest.i + 1))
                       \X ((northWest.j - 1)..(southEast.j + 1)) :
           shouldSpawnCache(i, j)}}

\* mutant of memoAfterGets: the value a cell is given depends on how many
\* cells were valued before it
memoAfterGetsByOrder(memo, ks) ==
  [k \in DOMAIN memo \cup ks |->
     IF k \in DOMAIN memo THEN memo[k]
     ELSE COIN_VALUES[(Cardinality(DOMAIN memo) % Len(COIN_VALUES)) + 1]]

\* mutant of memoAfterGets: every new entry is given the first coin value
memoAfterGetsFirstValue(memo, ks) ==
  [k \in DOMAIN memo \cup ks |->
     IF k \in DOMAIN memo THEN memo[k] ELSE COIN_VALUES[1]]

\* cellValues after getCellValue has been called for every key of ks
memoAfterGets(memo, ks) ==
  [k \in DOMAIN memo \cup ks |->
     IF k \in DOMAIN memo THEN memo[k] ELSE pickCacheValue(k[1], k[2])]

\* updateCircleTooltip: the value written to the tooltip and the icon
tooltipValue(overlay, memo, k) ==
  IF isPickedUp(overlay, k) THEN 0 ELSE getCellValue(memo, k[1], k[2])

\* mutant of updateVisibleCaches: newVisible starts as a copy of
\* visibleCaches
updateVisibleCachesKeepsOld(center, marker, overlay, memo, visible) ==
  LET keys == windowKeys(center) \cup DOMAIN visible
      created == keys \ DOMAIN visible
      memo2 == memoAfterGets(memo,
                 created \cup {k \in keys : ~isPickedUp(overlay, k)})
  IN [visible |->
        [k \in keys |->
           [shown |-> tooltipValue(overlay, memo2, k),
            bound |-> inRange(marker, [i |-> k[1], j |-> k[2]])]],
      memo |-> memo2]

\* updateVisibleCaches: the new visibleCaches and cellValues
updateVisibleCaches(center, marker, overlay, memo, visible) ==
  LET keys == windowKeys(center)
      created == keys \ DOMAIN visible
      memo2 == memoAfterGets(memo,
                 created \cup {k \in keys : ~isPickedUp(overlay, k)})
  IN [visible |->
        [k \in keys |->
           [shown |-> tooltipValue(overlay, memo2, k),
            bound |-> inRange(marker, [i |-> k[1], j |-> k[2]])]],
      memo |-> memo2]

\* how many layers of one part ("circle", "valueMarker") of the cache of
\* key k are on the map
layerCount(layers, k, part) == IF k \in DOMAIN layers THEN layers[k][part] ELSE 0

\* map.removeLayer(layer): one layer less, when there is one
lessOne(n) == IF n > 0 THEN n - 1 ELSE 0

\* createCache runs for the keys of newVisible that visibleCaches lacks
isCreated(visible, keys, k) == k \in keys /\ k \notin DOMAIN visible

\* the closing forEach removes the caches of visibleCaches that newVisible
\* lacks
isRemoved(visible, keys, k) == k \in DOMAIN visible /\ k \notin keys

\* mutant of layersAfterUpdate: only the circle of a cache that left the view
\* is removed
layersAfterUpdateLeavesMarker(layers, visible, keys) ==
  [k \in DOMAIN layers \cup keys |->
     IF isCreated(visible, keys, k)
     THEN [circle |-> layerCount(layers, k, "circle") + 1,
           valueMarker |-> layerCount(layers, k, "valueMarker") + 1]
     ELSE IF isRemoved(visible, keys, k)
          THEN [circle |-> lessOne(layers[k].circle),
                valueMarker |-> layers[k].valueMarker]
          ELSE layers[k]]

\* the layers updateVisibleCaches leaves on the map: createCache adds a circle
\* and a value marker, and the closing forEach removes both.  A key whose
\* layers are all gone is dropped.
layersAfterUpdate(layers, visible, keys) ==
  [k \in {x \in DOMAIN layers \cup keys :
            ~(/\ isRemoved(visible, keys, x)
              /\ layers[x].circle <= 1
              /\ layers[x].valueMarker <= 1)} |->
     IF isCreated(visible, keys, k)
     THEN [circle |-> layerCount(layers, k, "circle") + 1,
           valueMarker |-> layerCount(layers, k, "valueMarker") + 1]
     ELSE IF isRemoved(visible, keys, k)
          THEN [circle |-> lessOne(layers[k].circle),
                valueMarker |-> lessOne(layers[k].valueMarker)]
          ELSE layers[k]]

\* the open popup after updateVisibleCaches.  For a cache in range,
\* bindCachePopup sets the content of the popup bound to the circle again,
\* which renders an open popup anew (its #message is empty again).  For a
\* cache out of range, unbindPopup detaches the popup from its circle
\* without closing it.  map.removeLayer(circle) closes the popup only while
\* it is attached; a detached popup stays open, on a cache object no longer
\* on the map.
popupAfterRefresh(pop, marker, newKeys) ==
  IF pop.cell = <<>> \/ pop.stale THEN pop
  ELSE IF pop.cell \in newKeys
       THEN IF ~pop.attached THEN pop
            ELSE IF inRange(marker, [i |-> pop.cell[1], j |-> pop.cell[2]])
                 THEN [pop EXCEPT !.message = "", !.branch = "none"]
                 ELSE [pop EXCEPT !.attached = FALSE]
  ELSE IF pop.attached THEN NoPopup
  ELSE [pop EXCEPT !.stale = TRUE]

(***************************************************************************)
(* Startup: module initialisation followed by INITIAL SPAWN                *)
(***************************************************************************)
startup(item) ==
  LET st == loadGameState(defaultState, item)
      uvc == updateVisibleCaches(CLASSROOM_LATLNG, CLASSROOM_LATLNG,
                                 st.overlay, EmptyMap, EmptyMap)
  IN [playerCell |-> st.playerCell, held |-> st.held, overlay |-> st.overlay,
      marker |-> CLASSROOM_LATLNG, center |-> CLASSROOM_LATLNG,
      visible |-> uvc.visible, memo |-> uvc.memo,
      layers |-> layersAfterUpdate(EmptyMap, EmptyMap, DOMAIN uvc.visible)]

InitWith(item) ==
  \E s \in {startup(item)} :
     /\ playerCell = s.playerCell
     /\ playerHeldCoin = s.held
     /\ modifiedCacheState = s.overlay
     /\ cellValues = s.memo
     /\ playerMarker = s.marker
     /\ mapCenter = s.center
     /\ visibleCaches = s.visible
     /\ popup = NoPopup
     /\ storage = item
     /\ geoEnabled = FALSE
     /\ geoWatchId = NoWatch
     /\ watches = {}
     /\ currentMovement = "grid"
     /\ winAlerts = 0
     /\ mapLayers = s.layers
     /\ controlsShown = TRUE
     /\ inFlight = FALSE
     /\ geoError = FALSE

\* first run: nothing stored
Init == InitWith(NoItem)

\* the page is reloaded: every module-level value is rebuilt, the stored item
\* stays
Restart ==
  \E s \in {startup(storage)} :
     /\ playerCell' = s.playerCell
     /\ playerHeldCoin' = s.held
     /\ modifiedCacheState' = s.overlay
     /\ cellValues' = s.memo
     /\ playerMarker' = s.marker
     /\ mapCenter' = s.center
     /\ visibleCaches' = s.visible
     /\ popup' = NoPopup
     /\ geoEnabled' = FALSE
     /\ geoWatchId' = NoWatch
     /\ watches' = {}
     /\ currentMovement' = "grid"
     /\ mapLayers' = s.layers
     /\ controlsShown' = TRUE
     /\ inFlight' = FALSE
     /\ geoError' = FALSE
     /\ UNCHANGED <<storage, winAlerts>>

(***************************************************************************)
(* PLAYER MOVEMENT                                                         *)
(***************************************************************************)
\* mutant of movedTo: the move is not saved
movedToNoSave(cell, pos) ==
  /\ playerCell' = cell
  /\ playerMarker' = pos
  /\ mapCenter' = pos
  /\ \E uvc \in {updateVisibleCaches(pos, pos, modifiedCacheState, cellValues,
                                    visibleCaches)} :
        /\ visibleCaches' = uvc.visible
        /\ cellValues' = uvc.memo
        /\ popup' = popupAfterRefresh(popup, pos, DOMAIN uvc.visible)
        /\ mapLayers' = layersAfterUpdate(mapLayers, visibleCaches,
                                          DOMAIN uvc.visible)
  /\ UNCHANGED <<storage, playerHeldCoin, modifiedCacheState, geoEnabled,
                 geoWatchId, watches, currentMovement, winAlerts, controlsShown>>

\* what GridPlayerMovement.moveBy and moveToLatLng share: marker, panTo,
\* updateVisibleCaches, saveGameState
movedTo(cell, pos) ==
  /\ playerCell' = cell
  /\ playerMarker' = pos
  /\ mapCenter' = pos
  /\ \E uvc \in {updateVisibleCaches(pos, pos, modifiedCacheState, cellValues,
                                    visibleCaches)} :
        /\ visibleCaches' = uvc.visible
        /\ cellValues' = uvc.memo
        /\ popup' = popupAfterRefresh(popup, pos, DOMAIN uvc.visible)
        /\ mapLayers' = layersAfterUpdate(mapLayers, visibleCaches,
                                          DOMAIN uvc.visible)
  /\ storage' = saveGameState(cell, playerHeldCoin, modifiedCacheState)
  /\ UNCHANGED <<playerHeldCoin, modifiedCacheState, geoEnabled, geoWatchId, watches,
                 currentMovement, winAlerts, controlsShown>>

\* mutant of steppedCell: the two deltas are added to the wrong axes
steppedCellSwapsAxes(cell, dI, dJ) == [i |-> cell.i + dJ, j |-> cell.j + dI]

\* the cell GridPlayerMovement.moveBy moves to
steppedCell(cell, dI, dJ) == [i |-> cell.i + dI, j |-> cell.j + dJ]

GridMoveBy(dI, dJ) ==
  \E cell \in {steppedCell(playerCell, dI, dJ)} :
     /\ cell \in Cells
     /\ movedTo(cell, cellToLatLng(cell))
     /\ UNCHANGED <<inFlight, geoError>>

\* mutant of GridMoveToLatLng: the marker is placed, the cell is left as it
\* was
GridMoveToLatLngKeepsCell(pos) ==
  movedTo(playerCell, pos)

GridMoveToLatLng(pos) ==
  movedTo(latLngToCell(pos), pos)

\* CONTROL WIRING: the step each arrow button passes to moveBy
moves ==
  [up |-> <<1, 0>>, down |-> <<-1, 0>>, left |-> <<0, -1>>, right |-> <<0, 1>>]

\* the four arrow buttons
Moves == {<<1, 0>>, <<-1, 0>>, <<0, -1>>, <<0, 1>>}

\* mutant of MoveBy: the facade always delegates to gridMovement
MoveByIgnoresStrategy(dI, dJ) == GridMoveBy(dI, dJ)

\* mutant of MoveBy: the arrow buttons do nothing once the coin of value
\* WIN_VALUE is held
MoveByBlockedWhenWon(dI, dJ) ==
  IF currentMovement = "grid" /\ playerHeldCoin # WIN_VALUE
  THEN GridMoveBy(dI, dJ)
  ELSE UNCHANGED <<playerCell, playerHeldCoin, modifiedCacheState,
                  cellValues, playerMarker, mapCenter, visibleCaches,
                  popup, storage, geoEnabled, geoWatchId, watches, currentMovement,
                  winAlerts, mapLayers, controlsShown, inFlight, geoError>>

\* an arrow button is clicked: MovementFacade.moveBy
MoveBy(dI, dJ) ==
  IF currentMovement = "grid"
  THEN GridMoveBy(dI, dJ)
  ELSE UNCHANGED <<playerCell, playerHeldCoin, modifiedCacheState,
                  cellValues, playerMarker, mapCenter, visibleCaches,
                  popup, storage, geoEnabled, geoWatchId, watches, currentMovement,
                  winAlerts, mapLayers, controlsShown, inFlight, geoError>>

\* positions the location sensor reports: a cell centre in the north, and a
\* point exactly on the corner of cell (-1, -1)
GeoFixes ==
  {cellToLatLng([i |-> NorthRows, j |-> 0]),
   [lat |-> 0 - TILE_UNITS, lng |-> 0 - TILE_UNITS]}

\* mutant of SensorUpdate: a position in the cell the player is in already is
\* dropped
SensorUpdateDropsSameCell(pos) ==
  /\ watches # {} \/ inFlight
  /\ IF latLngToCell(pos) = playerCell
     THEN UNCHANGED <<playerCell, playerHeldCoin, modifiedCacheState,
                      cellValues, playerMarker, mapCenter, visibleCaches,
                      popup, storage, geoEnabled, geoWatchId, watches, currentMovement,
                      winAlerts, mapLayers, controlsShown>>
     ELSE GridMoveToLatLng(pos)
  /\ inFlight' = FALSE
  /\ geoError' = FALSE

\* the success callback of watchPosition runs with a position.  It runs for
\* the registered watch, and it may run once more after clearWatch when the
\* position was queued before: the callback itself tests nothing
SensorUpdate(pos) ==
  /\ watches # {} \/ inFlight
  /\ GridMoveToLatLng(pos)
  /\ inFlight' = FALSE
  /\ geoError' = FALSE

\* the error callback of watchPosition runs: console.error
SensorError ==
  /\ watches # {}
  /\ geoError' = TRUE
  /\ UNCHANGED <<playerCell, playerHeldCoin, modifiedCacheState, cellValues,
                 playerMarker, mapCenter, visibleCaches, popup, storage,
                 geoEnabled, geoWatchId, watches, currentMovement, winAlerts, mapLayers,
                 controlsShown, inFlight>>

(***************************************************************************)
(* GEOLOCATION                                                             *)
(***************************************************************************)
\* mutant of ToggleGeo: enableGeolocationMovement sets the sensor strategy
\* before it tests navigator.geolocation
ToggleGeoSwitchesFirst ==
  /\ IF ~geoEnabled
     THEN /\ \E geolocation \in BOOLEAN :
               IF ~geolocation
               THEN UNCHANGED <<geoWatchId, watches, inFlight>>
               ELSE /\ geoWatchId' = watchPosition(watches)
                    /\ watches' = watches \cup {geoWatchId'}
                    /\ inFlight' = FALSE
          /\ currentMovement' = "geo"
          /\ controlsShown' = FALSE
     ELSE /\ geoWatchId' = NoWatch
          /\ watches' = IF geoWatchId # NoWatch
                        THEN clearWatch(watches, geoWatchId) ELSE watches
          /\ \E queued \in BOOLEAN :
                inFlight' = ((geoWatchId \in watches /\ queued) \/ inFlight)
          /\ currentMovement' = "grid"
          /\ controlsShown' = TRUE
  /\ geoEnabled' = ~geoEnabled
  /\ geoError' = FALSE
  /\ UNCHANGED <<playerCell, playerHeldCoin, modifiedCacheState, cellValues,
                 playerMarker, mapCenter, visibleCaches, popup, storage,
                 winAlerts, mapLayers>>

\* mutant of ToggleGeo: disabling puts the marker back on the centre of the
\* player's cell
ToggleGeoSnapsMarker ==
  /\ IF ~geoEnabled
     THEN /\ \E geolocation \in BOOLEAN :
               IF ~geolocation
               THEN UNCHANGED <<currentMovement, geoWatchId, watches, inFlight>>
               ELSE /\ currentMovement' = "geo"
                    /\ geoWatchId' = watchPosition(watches)
                    /\ watches' = watches \cup {geoWatchId'}
                    /\ inFlight' = FALSE
          /\ controlsShown' = FALSE
          /\ UNCHANGED playerMarker
     ELSE /\ geoWatchId' = NoWatch
          /\ watches' = IF geoWatchId # NoWatch
                        THEN clearWatch(watches, geoWatchId) ELSE watches
          /\ \E queued \in BOOLEAN :
                inFlight' = ((geoWatchId \in watches /\ queued) \/ inFlight)
          /\ currentMovement' = "grid"
          /\ controlsShown' = TRUE
          /\ playerMarker' = cellToLatLng(playerCell)
  /\ geoEnabled' = ~geoEnabled
  /\ geoError' = FALSE
  /\ UNCHANGED <<playerCell, playerHeldCoin, modifiedCacheState, cellValues,
                 mapCenter, visibleCaches, popup, storage,
                 winAlerts, mapLayers>>

\* mutant of ToggleGeo: disableGeolocationMovement forgets the id without
\* clearing the watch
ToggleGeoLeaksWatch ==
  /\ IF ~geoEnabled
     THEN /\ \E geolocation \in BOOLEAN :
               IF ~geolocation
               THEN UNCHANGED <<currentMovement, geoWatchId, watches, inFlight>>
               ELSE /\ currentMovement' = "geo"
                    /\ geoWatchId' = watchPosition(watches)
                    /\ watches' = watches \cup {geoWatchId'}
                    /\ inFlight' = FALSE
          /\ controlsShown' = FALSE
     ELSE /\ geoWatchId' = NoWatch
          /\ UNCHANGED <<watches, inFlight>>
          /\ currentMovement' = "grid"
          /\ controlsShown' = TRUE
  /\ geoEnabled' = ~geoEnabled
  /\ geoError' = FALSE
  /\ UNCHANGED <<playerCell, playerHeldCoin, modifiedCacheState, cellValues,
                 playerMarker, mapCenter, visibleCaches, popup, storage,
                 winAlerts, mapLayers>>

\* geoBtn click handler, with enableGeolocationMovement and
\* disableGeolocationMovement; geolocation is what navigator.geolocation
\* holds when the handler reads it
ToggleGeo ==
  /\ IF ~geoEnabled
     THEN /\ \E geolocation \in BOOLEAN :
               IF ~geolocation
               THEN UNCHANGED <<currentMovement, geoWatchId, watches, inFlight>>
               ELSE /\ currentMovement' = "geo"
                    /\ geoWatchId' = watchPosition(watches)
                    /\ watches' = watches \cup {geoWatchId'}
                    /\ inFlight' = FALSE
          /\ controlsShown' = FALSE
     ELSE /\ geoWatchId' = NoWatch
          /\ watches' = IF geoWatchId # NoWatch
                        THEN clearWatch(watches, geoWatchId) ELSE watches
          /\ \E queued \in BOOLEAN :
                inFlight' = ((geoWatchId \in watches /\ queued) \/ inFlight)
          /\ currentMovement' = "grid"
          /\ controlsShown' = TRUE
  /\ geoEnabled' = ~geoEnabled
  /\ geoError' = FALSE
  /\ UNCHANGED <<playerCell, playerHeldCoin, modifiedCacheState, cellValues,
                 playerMarker, mapCenter, visibleCaches, popup, storage,
                 winAlerts, mapLayers>>

(***************************************************************************)
(* NEW GAME                                                                *)
(***************************************************************************)
\* mutant of StartNewGame: the stored item is not removed
StartNewGameKeepsItem ==
  /\ playerCell' = latLngToCell(CLASSROOM_LATLNG)
  /\ playerMarker' = CLASSROOM_LATLNG
  /\ mapCenter' = CLASSROOM_LATLNG
  /\ playerHeldCoin' = 1
  /\ modifiedCacheState' = <<>>
  /\ \E uvc \in {updateVisibleCaches(CLASSROOM_LATLNG, CLASSROOM_LATLNG, <<>>,
                                    cellValues, visibleCaches)} :
        /\ visibleCaches' = uvc.visible
        /\ cellValues' = uvc.memo
        /\ popup' = popupAfterRefresh(popup, CLASSROOM_LATLNG, DOMAIN uvc.visible)
        /\ mapLayers' = layersAfterUpdate(mapLayers, visibleCaches,
                                          DOMAIN uvc.visible)
  /\ winAlerts' = 0
  /\ UNCHANGED <<storage, geoEnabled, geoWatchId, watches, currentMovement,
                 controlsShown, inFlight, geoError>>

\* startNewGame
StartNewGame ==
  /\ playerCell' = latLngToCell(CLASSROOM_LATLNG)
  /\ playerMarker' = CLASSROOM_LATLNG
  /\ mapCenter' = CLASSROOM_LATLNG
  /\ playerHeldCoin' = 1
  /\ modifiedCacheState' = <<>>
  /\ storage' = NoItem
  /\ \E uvc \in {updateVisibleCaches(CLASSROOM_LATLNG, CLASSROOM_LATLNG, <<>>,
                                    cellValues, visibleCaches)} :
        /\ visibleCaches' = uvc.visible
        /\ cellValues' = uvc.memo
        /\ popup' = popupAfterRefresh(popup, CLASSROOM_LATLNG, DOMAIN uvc.visible)
        /\ mapLayers' = layersAfterUpdate(mapLayers, visibleCaches,
                                          DOMAIN uvc.visible)
  /\ winAlerts' = 0
  /\ UNCHANGED <<geoEnabled, geoWatchId, watches, currentMovement, controlsShown,
                 inFlight, geoError>>

(***************************************************************************)
(* CACHE LOGIC                                                             *)
(***************************************************************************)
\* mutant of pickupResult: an empty hand takes the coin and leaves the cache
\* unmarked
pickupResultLeavesCache(held, cur) ==
  IF held = NullCoin
  THEN [held |-> cur, pickedUp |-> FALSE, branch |-> "PickedUp", message |-> ""]
  ELSE IF held = cur
       THEN [held |-> held * 2, pickedUp |-> TRUE, branch |-> "Merged",
             message |-> ""]
       ELSE [held |-> held, pickedUp |-> FALSE, branch |-> "Rejected",
             message |-> MISMATCH]

\* mutant of pickupResult: a merge hands over the cache's coin undoubled
pickupResultUndoubled(held, cur) ==
  IF held = NullCoin
  THEN [held |-> cur, pickedUp |-> TRUE, branch |-> "PickedUp", message |-> ""]
  ELSE IF held = cur
       THEN [held |-> cur, pickedUp |-> TRUE, branch |-> "Merged",
             message |-> ""]
       ELSE [held |-> held, pickedUp |-> FALSE, branch |-> "Rejected",
             message |-> MISMATCH]

\* mutant of pickupResult: a rejected click still swaps the coins
pickupResultSwaps(held, cur) ==
  IF held = NullCoin
  THEN [held |-> cur, pickedUp |-> TRUE, branch |-> "PickedUp", message |-> ""]
  ELSE IF held = cur
       THEN [held |-> held * 2, pickedUp |-> TRUE, branch |-> "Merged",
             message |-> ""]
       ELSE [held |-> cur, pickedUp |-> TRUE, branch |-> "Rejected",
             message |-> MISMATCH]

\* mutant of pickupResult: a rejected click empties the hand
pickupResultDropsOnReject(held, cur) ==
  IF held = NullCoin
  THEN [held |-> cur, pickedUp |-> TRUE, branch |-> "PickedUp", message |-> ""]
  ELSE IF held = cur
       THEN [held |-> held * 2, pickedUp |-> TRUE, branch |-> "Merged",
             message |-> ""]
       ELSE [held |-> NullCoin, pickedUp |-> FALSE, branch |-> "Rejected",
             message |-> MISMATCH]

\* mutant of pickupResult: an emptied cache merges with any coin
pickupResultMergesEmptied(held, cur) ==
  IF held = NullCoin
  THEN [held |-> cur, pickedUp |-> TRUE, branch |-> "PickedUp", message |-> ""]
  ELSE IF held = cur \/ cur = 0
       THEN [held |-> held * 2, pickedUp |-> TRUE, branch |-> "Merged",
             message |-> ""]
       ELSE [held |-> held, pickedUp |-> FALSE, branch |-> "Rejected",
             message |-> MISMATCH]

\* the three branches of handleCachePickup
pickupResult(held, cur) ==
  IF held = NullCoin
  THEN [held |-> cur, pickedUp |-> TRUE, branch |-> "PickedUp", message |-> ""]
  ELSE IF held = cur
       THEN [held |-> held * 2, pickedUp |-> TRUE, branch |-> "Merged",
             message |-> ""]
       ELSE [held |-> held, pickedUp |-> FALSE, branch |-> "Rejected",
             message |-> MISMATCH]

\* mutant of overlayAfterPickup: every branch writes an entry for the cell
overlayAfterPickupAlwaysSets(overlay, k, r) ==
  MapSet(overlay, k, [pickedUp |-> r.pickedUp])

\* modifiedCacheState after the branch taken
overlayAfterPickup(overlay, k, r) ==
  IF r.pickedUp THEN MapSet(overlay, k, [pickedUp |-> TRUE]) ELSE overlay

\* mutant of winAlertRaised: the test runs after every branch
winAlertRaisedAnyBranch(r) == r.held = WIN_VALUE

\* if (playerHeldCoin === 256) alert(...), in the merge branch only
winAlertRaised(r) == r.branch = "Merged" /\ r.held = WIN_VALUE

\* handleCachePickup on cache k: the values it leaves
pickupEffect(held, overlay, memo, k) ==
  LET pickedUp == isPickedUp(overlay, k)
      cur == currentValue(overlay, memo, [i |-> k[1], j |-> k[2]])
      memo1 == IF pickedUp THEN memo ELSE memoAfterGet(memo, k[1], k[2])
      r == pickupResult(held, cur)
      overlay2 == overlayAfterPickup(overlay, k, r)
      memo2 == IF isPickedUp(overlay2, k) THEN memo1
               ELSE memoAfterGet(memo1, k[1], k[2])
  IN [held |-> r.held, overlay |-> overlay2, memo |-> memo2,
      message |-> r.message, branch |-> r.branch, alert |-> winAlertRaised(r),
      shown |-> tooltipValue(overlay2, memo2, k)]

\* the pickup button of a popup of cache k is clicked; live tells whether
\* the popup's cache object is the one on the map
handleCachePickup(k, live) ==
  \E e \in {pickupEffect(playerHeldCoin, modifiedCacheState, cellValues, k)} :
     /\ playerHeldCoin' = e.held
     /\ modifiedCacheState' = e.overlay
     /\ cellValues' = e.memo
     /\ visibleCaches' =
          IF live THEN [visibleCaches EXCEPT ![k].shown = e.shown]
          ELSE visibleCaches
     /\ winAlerts' =
          IF e.alert /\ winAlerts < MaxAlerts THEN winAlerts + 1 ELSE winAlerts
     /\ storage' = saveGameState(playerCell, e.held, e.overlay)
     /\ popup' = [popup EXCEPT !.message = e.message, !.branch = e.branch]
     /\ UNCHANGED <<playerCell, playerMarker, mapCenter, geoEnabled,
                    geoWatchId, watches, currentMovement, mapLayers, controlsShown,
                    inFlight, geoError>>

ClickPickup ==
  /\ popup.cell # <<>>
  /\ handleCachePickup(popup.cell, ~popup.stale)

\* a cache circle is clicked: Leaflet opens the bound popup, and the
\* bindCacheTap handler opens one if the player is within range
OpenPopup(k) ==
  /\ k \in DOMAIN visibleCaches
  /\ \/ visibleCaches[k].bound
     \/ inRange(playerMarker, [i |-> k[1], j |-> k[2]])
  /\ popup' = [NoPopup EXCEPT !.cell = k, !.attached = TRUE]
  /\ visibleCaches' = [visibleCaches EXCEPT ![k].bound = TRUE]
  /\ cellValues' = IF isPickedUp(modifiedCacheState, k) THEN cellValues
                   ELSE memoAfterGet(cellValues, k[1], k[2])
  /\ UNCHANGED <<playerCell, playerHeldCoin, modifiedCacheState, playerMarker,
                 mapCenter, storage, geoEnabled, geoWatchId, watches,
                 currentMovement, winAlerts, mapLayers, controlsShown,
                 inFlight, geoError>>

\* the user closes the open popup
ClosePopup ==
  /\ popup.cell # <<>>
  /\ popup' = NoPopup
  /\ UNCHANGED <<playerCell, playerHeldCoin, modifiedCacheState, cellValues,
                 playerMarker, mapCenter, visibleCaches, storage, geoEnabled,
                 geoWatchId, watches, currentMovement, winAlerts, mapLayers,
                 controlsShown, inFlight, geoError>>

\* map centres the user drags the map to
PanTargets == {cellToLatLng([i |-> NorthRows, j |-> -1])}

\* map.on("move", updateVisibleCaches): the map is dragged
MapMove(center) ==
  \E uvc \in {updateVisibleCaches(center, playerMarker, modifiedCacheState,
                                 cellValues, visibleCaches)} :
     /\ mapCenter' = center
     /\ visibleCaches' = uvc.visible
     /\ cellValues' = uvc.memo
     /\ popup' = popupAfterRefresh(popup, playerMarker, DOMAIN uvc.visible)
     /\ mapLayers' = layersAfterUpdate(mapLayers, visibleCaches,
                                       DOMAIN uvc.visible)
     /\ UNCHANGED <<playerCell, playerHeldCoin, modifiedCacheState,
                    playerMarker, storage, geoEnabled,
                    geoWatchId, watches, currentMovement, winAlerts, controlsShown,
                    inFlight, geoError>>

(***************************************************************************)
(* Specifications                                                          *)
(***************************************************************************)
Next ==
  \/ \E m \in Moves : MoveBy(m[1], m[2])
  \/ \E pos \in GeoFixes : SensorUpdate(pos)
  \/ SensorError
  \/ ToggleGeo
  \/ StartNewGame
  \/ \E k \in DOMAIN visibleCaches : OpenPopup(k)
  \/ ClosePopup
  \/ ClickPickup
  \/ \E center \in PanTargets : MapMove(center)
  \/ Restart

Spec == Init /\ [][Next]_vars

\* items a browser may hold when the page is opened: nothing, text that is
\* not JSON, an object without playerCell, an object without
\* modifiedCacheState, and a snapshot with no coin in hand
StoredItems ==
  {NoItem,
   [NoItem EXCEPT !.present = TRUE],
   [NoItem EXCEPT !.present = TRUE, !.parses = TRUE],
   [NoItem EXCEPT !.present = TRUE, !.parses = TRUE, !.hasCell = TRUE,
                  !.playerCell = [i |-> 1, j |-> 0], !.playerHeldCoin = 128],
   saveGameState([i |-> -1, j |-> 0], NullCoin,
                 <<<<keyOf(-2, -1), [pickedUp |-> TRUE]>>>>)}

InitStored == \E item \in StoredItems : InitWith(item)

SpecStored == InitStored /\ [][Next]_vars

(***************************************************************************)
(* Addressing alone: latLngToCell and cellToLatLng applied to every        *)
(* coordinate of -MaxCoord..MaxCoord, in the two statements of             *)
(* GridPlayerMovement that use them.  The other variables rest at their    *)
(* first-run values.                                                       *)
(***************************************************************************)
AddrProbes == [lat : (0 - MaxCoord)..MaxCoord, lng : (0 - MaxCoord)..MaxCoord]

\* moveToLatLng, its first three statements
Relocate(pos) ==
  /\ playerCell' = latLngToCell(pos)
  /\ playerMarker' = pos
  /\ UNCHANGED <<playerHeldCoin, modifiedCacheState, cellValues, mapCenter,
                 visibleCaches, popup, storage, geoEnabled, geoWatchId, watches,
                 currentMovement, winAlerts, mapLayers, controlsShown,
                 inFlight, geoError>>

\* moveBy, its setLatLng(cellToLatLng(playerCell))
Recenter ==
  /\ playerMarker' = cellToLatLng(playerCell)
  /\ UNCHANGED <<playerCell, playerHeldCoin, modifiedCacheState, cellValues,
                 mapCenter, visibleCaches, popup, storage, geoEnabled,
                 geoWatchId, watches, currentMovement, winAlerts, mapLayers,
                 controlsShown, inFlight, geoError>>

InitAddr ==
  \E pos \in AddrProbes :
     \E s \in {startup(NoItem)} :
        /\ playerCell = latLngToCell(pos)
        /\ playerMarker = pos
        /\ playerHeldCoin = s.held
        /\ modifiedCacheState = s.overlay
        /\ cellValues = s.memo
        /\ mapCenter = s.center
        /\ visibleCaches = s.visible
        /\ popup = NoPopup
        /\ storage = NoItem
        /\ geoEnabled = FALSE
        /\ geoWatchId = NoWatch
        /\ watches = {}
        /\ currentMovement = "grid"
        /\ winAlerts = 0
        /\ mapLayers = s.layers
        /\ controlsShown = TRUE
        /\ inFlight = FALSE
        /\ geoError = FALSE

NextAddr ==
  \/ \E pos \in AddrProbes : Relocate(pos)
  \/ Recenter

SpecAddr == InitAddr /\ [][NextAddr]_vars

(***************************************************************************)
(* Properties                                                              *)
(***************************************************************************)
\* the three persisted parts of the live state
Live == [playerCell |-> playerCell, held |-> playerHeldCoin,
         overlay |-> OverlayFlags(modifiedCacheState)]

\* the same three parts of what a page load makes of a stored item
Loaded(item) ==
  LET st == loadGameState(defaultState, item)
  IN [playerCell |-> st.playerCell, held |-> st.held,
      overlay |-> OverlayFlags(st.overlay)]

\* the state of a first run
FreshStart == startup(NoItem)

\* C1 - Merge correctness: every click of the pickup button made while the
\* player holds a coin v > 0 on a cache whose current value is v doubles the
\* held coin, records the cell as picked up and shows no rejection message.
C1_MergeDoubles ==
  [][(/\ ClickPickup
      /\ playerHeldCoin # NullCoin
      /\ playerHeldCoin > 0
      /\ playerHeldCoin =
           currentValue(modifiedCacheState, cellValues, cellOfKey(popup.cell)))
     => /\ playerHeldCoin' = 2 * playerHeldCoin
        /\ isPickedUp(modifiedCacheState', popup.cell)
        /\ popup'.branch = "Merged"
        /\ popup'.message = ""]_vars

\* scenario A: the coin of value 1 was merged into the cache of value 1
C1_Witness ==
  /\ playerHeldCoin = 2
  /\ pickCacheValue(-2, -1) = 1
  /\ popup.cell = keyOf(-2, -1)
  /\ popup.branch = "Merged"
  /\ MapKeys(modifiedCacheState) = {keyOf(-2, -1)}
  /\ isPickedUp(modifiedCacheState, keyOf(-2, -1))

\* C2 - Rejection leaves state unchanged: every click made while the player
\* holds a coin v on a cache whose current value differs from v shows the
\* rejection message and leaves the held coin, the overlay, the cell's value
\* and the player cell as they were.
C2_RejectionUnchanged ==
  [][(/\ ClickPickup
      /\ playerHeldCoin # NullCoin
      /\ playerHeldCoin #
           currentValue(modifiedCacheState, cellValues, cellOfKey(popup.cell)))
     => /\ popup'.message = MISMATCH
        /\ popup'.branch = "Rejected"
        /\ playerHeldCoin' = playerHeldCoin
        /\ modifiedCacheState' = modifiedCacheState
        /\ currentValue(modifiedCacheState', cellValues', cellOfKey(popup.cell))
             = currentValue(modifiedCacheState, cellValues, cellOfKey(popup.cell))
        /\ playerCell' = playerCell]_vars

\* scenario B: holding 4, the player was rejected by the cache of value 8
C2_Witness ==
  /\ playerHeldCoin = 4
  /\ popup.cell = keyOf(1, 0)
  /\ popup.message = MISMATCH
  /\ currentValue(modifiedCacheState, cellValues, [i |-> 1, j |-> 0]) = 8

\* C3 - Permanent memento: a cell that is picked up stays picked up, and its
\* value stays 0, across every step that is not a new-game reset: moves,
\* sensor updates, map drags, popups, interactions and page reloads.
C3_PermanentMemento ==
  [][\/ \A n \in 1..Len(modifiedCacheState) :
          modifiedCacheState[n][2].pickedUp
          => /\ isPickedUp(modifiedCacheState', modifiedCacheState[n][1])
             /\ currentValue(modifiedCacheState', cellValues',
                             cellOfKey(modifiedCacheState[n][1])) = 0
     \/ StartNewGame]_vars

\* scenario D: a merged cell is outside the visible window, still remembered
C3_Witness ==
  /\ isPickedUp(modifiedCacheState, keyOf(-2, -1))
  /\ keyOf(-2, -1) \notin DOMAIN visibleCaches
  /\ currentValue(modifiedCacheState, cellValues, [i |-> -2, j |-> -1]) = 0
  /\ playerHeldCoin >= 2

\* C4 - Persistence round-trip: in every reachable state, what a page load
\* makes of the item saveGameState writes is the live player cell, held coin
\* and overlay.
C4_PersistenceRoundTrip ==
  Loaded(saveGameState(playerCell, playerHeldCoin, modifiedCacheState)) = Live

\* a page load has restored a snapshot with a moved player, a merged coin
\* and two overlay entries (a page load leaves the marker at the classroom)
C4_Witness ==
  /\ storage = saveGameState(playerCell, playerHeldCoin, modifiedCacheState)
  /\ Len(modifiedCacheState) >= 2
  /\ playerHeldCoin = 4
  /\ playerCell # latLngToCell(CLASSROOM_LATLNG)
  /\ playerMarker = CLASSROOM_LATLNG

\* C5 - Persist after every mutation: after every arrow step, every sensor
\* update and every click of a pickup button, the stored item is present and
\* a page load would restore from it exactly the live player cell, held coin
\* and overlay.
C5_PersistAfterMutation ==
  [][\/ /\ storage'.present
        /\ Loaded(storage') = Live'
     \/ ~(\/ \E m \in Moves : currentMovement = "grid" /\ GridMoveBy(m[1], m[2])
          \/ \E pos \in GeoFixes : SensorUpdate(pos)
          \/ ClickPickup)]_vars

\* the stored item holds a stepped player and a merge
C5_Witness ==
  /\ storage.present
  /\ storage.playerCell = playerCell
  /\ playerCell # latLngToCell(CLASSROOM_LATLNG)
  /\ playerMarker = cellToLatLng(playerCell)
  /\ storage.playerHeldCoin = 2
  /\ Len(storage.modifiedCacheState) = 1

\* C6 - Malformed snapshot recovery: while the stored item is malformed
\* (not JSON, or without playerCell, or without the modifiedCacheState
\* array), the engine is in the fresh default state: start cell, coin 1,
\* empty overlay.  (A malformed item can only be one found at page load: every
\* save writes a well-formed one.)
C6_MalformedRecovery ==
  (storage.present /\ ~(storage.parses /\ storage.hasCell /\ storage.hasOverlay))
  => /\ playerCell = defaultState.playerCell
     /\ playerHeldCoin = defaultState.held
     /\ modifiedCacheState = defaultState.overlay

\* C7 - Reset: startNewGame removes the stored item and leaves the start
\* cell, coin 1, an empty overlay and the marker of a first run; a page load
\* right after it yields the default state.
C7_Reset ==
  [][StartNewGame
     => /\ ~storage'.present
        /\ playerCell' = latLngToCell(CLASSROOM_LATLNG)
        /\ playerHeldCoin' = 1
        /\ modifiedCacheState' = <<>>
        /\ playerMarker' = FreshStart.marker
        /\ Loaded(storage') = Live'
        /\ Loaded(storage').playerCell = defaultState.playerCell
        /\ Loaded(storage').held = defaultState.held
        /\ Loaded(storage').overlay = OverlayFlags(defaultState.overlay)]_vars

\* a new game was started after play: nothing is stored although a popup
\* was detached by a move, and the state is the default one
C7_Witness ==
  /\ ~storage.present
  /\ popup.cell # <<>>
  /\ ~popup.attached
  /\ playerCell = latLngToCell(CLASSROOM_LATLNG)
  /\ playerHeldCoin = 1
  /\ modifiedCacheState = <<>>

\* C8 - Victory reported exactly once: in a game started fresh, a win alert
\* is raised by a step exactly when that step takes the held coin from 128 to
\* 256; it is the first of the game; and once raised the held coin is 256.
C8_VictoryOnce ==
  [][/\ (winAlerts' > winAlerts)
        <=> (playerHeldCoin = 128 /\ playerHeldCoin' = 256)
     /\ (winAlerts' > winAlerts) => (winAlerts = 0 /\ ClickPickup)
     /\ (winAlerts' >= 1) => playerHeldCoin' = WIN_VALUE]_vars

\* the chain of eight merges was completed
C8_Witness ==
  /\ winAlerts = 1
  /\ playerHeldCoin = WIN_VALUE
  /\ Len(modifiedCacheState) = 8

\* C9 - Only Interactive cells accept interaction: a click of a pickup button
\* changes the held coin or the overlay only if the cache's centre is within
\* the interaction radius of the player's marker at that moment.
C9_OnlyInteractive ==
  [][(/\ ClickPickup
      /\ \/ playerHeldCoin' # playerHeldCoin
         \/ modifiedCacheState' # modifiedCacheState)
     => inRange(playerMarker, cellOfKey(popup.cell))]_vars

\* C10 - Merge requires a nonzero value: a click made while holding a coin
\* (of any value, 0 included) on a cache whose current value is 0 is
\* rejected: the rejection message shows, and held coin and overlay stay.
C10_MergeNeedsNonzero ==
  [][(/\ ClickPickup
      /\ playerHeldCoin # NullCoin
      /\ currentValue(modifiedCacheState, cellValues, cellOfKey(popup.cell)) = 0)
     => /\ popup'.branch = "Rejected"
        /\ popup'.message = MISMATCH
        /\ playerHeldCoin' = playerHeldCoin
        /\ modifiedCacheState' = modifiedCacheState]_vars

\* C11 - Pickup when empty-handed: every click of a pickup button made while
\* no coin is held takes the PickedUp branch: the held coin becomes the
\* cache's current value (its default value, or 0 when it was picked up
\* before), the cell is recorded as picked up and no message shows.
C11_PickupEmptyHanded ==
  [][(/\ playerHeldCoin = NullCoin
      /\ ClickPickup)
     => /\ playerHeldCoin' =
             currentValue(modifiedCacheState, cellValues, cellOfKey(popup.cell))
        /\ isPickedUp(modifiedCacheState', popup.cell)
        /\ popup'.branch = "PickedUp"
        /\ popup'.message = ""]_vars

\* restored without a coin, the player took the coin of an untouched cache
C11_Witness ==
  /\ popup.cell # <<>>
  /\ popup.branch = "PickedUp"
  /\ playerHeldCoin = pickCacheValue(popup.cell[1], popup.cell[2])
  /\ isPickedUp(modifiedCacheState, popup.cell)
  /\ Len(modifiedCacheState) = 2

\* C12 - Determinism of unmodified cells: in every reachable state (after
\* any order of moves, drags, new games and page loads) every memoized value
\* is the value pickCacheValue gives its cell, every cell without an overlay
\* entry has that value, and a cell has a cache on the map only if
\* shouldSpawnCache holds for it.
C12_Determinism ==
  /\ \A k \in DOMAIN cellValues : cellValues[k] = pickCacheValue(k[1], k[2])
  /\ \A c \in Cells :
        keyOf(c.i, c.j) \notin MapKeys(modifiedCacheState)
        => /\ currentValue(modifiedCacheState, cellValues, c)
                = pickCacheValue(c.i, c.j)
           /\ keyOf(c.i, c.j) \in DOMAIN visibleCaches
                => /\ shouldSpawnCache(c.i, c.j)
                   /\ visibleCaches[keyOf(c.i, c.j)].shown
                        = pickCacheValue(c.i, c.j)

\* after play, an untouched cache that left the view is still memoized
C12_Witness ==
  /\ Len(modifiedCacheState) >= 2
  /\ keyOf(-2, 0) \in DOMAIN cellValues
  /\ keyOf(-2, 0) \notin DOMAIN visibleCaches
  /\ keyOf(-2, 0) \notin MapKeys(modifiedCacheState)
  /\ cellValues[keyOf(-2, 0)] = 32

\* C13 - Round-trip addressing: the cell of the centre of every cell is that
\* cell, for negative, zero and positive indices; and for every coordinate,
\* going to its cell, to that cell's centre and back to a cell gives the
\* same cell.
C13_RoundTrip ==
  /\ latLngToCell(cellToLatLng(playerCell)) = playerCell
  /\ latLngToCell(cellToLatLng(latLngToCell(playerMarker)))
       = latLngToCell(playerMarker)

\* the marker was put on the centre of a cell of negative row and positive
\* column
C13_Witness ==
  /\ playerCell.i < 0
  /\ playerCell.j > 0
  /\ playerMarker = cellToLatLng(playerCell)

C15_VisibleIsWindow ==
  DOMAIN visibleCaches = windowKeys(mapCenter)

\* the map was dragged away from the player; a picked-up cache is in the new
\* window and an untouched one has left it
C15_Witness ==
  /\ mapCenter # playerMarker
  /\ mapCenter \in PanTargets
  /\ \E k \in DOMAIN visibleCaches : isPickedUp(modifiedCacheState, k)
  /\ \E k \in DOMAIN cellValues :
        k \notin DOMAIN visibleCaches /\ ~isPickedUp(modifiedCacheState, k)

\* C16 - Eviction releases render objects: in every reachable state the
\* cache layers on the map are one circle and one value marker for each
\* cache of visibleCaches, and none for any other cell.
C16_LayersAreVisible ==
  /\ DOMAIN mapLayers = DOMAIN visibleCaches
  /\ \A k \in DOMAIN mapLayers :
        mapLayers[k].circle = 1 /\ mapLayers[k].valueMarker = 1

\* a cache that had layers (it is memoized) is out of view with no layer
\* left, while the caches in view have theirs
C16_Witness ==
  /\ keyOf(-2, -1) \in DOMAIN cellValues
  /\ keyOf(-2, -1) \notin DOMAIN visibleCaches
  /\ keyOf(-2, -1) \notin DOMAIN mapLayers
  /\ keyOf(1, 0) \in DOMAIN mapLayers

\* C17 - Strategy switch takes effect immediately: a toggle that registers a
\* watch leaves the sensor strategy active and one that disables leaves the
\* grid strategy active; a step command through the facade changes nothing
\* while the sensor strategy is active, and moves cell and marker by exactly
\* the commanded step, once, while the grid strategy is.
C17_SwitchImmediate ==
  [][/\ ToggleGeo => /\ (currentMovement' = "geo") <=> (geoWatchId' # NoWatch)
                      /\ geoEnabled => currentMovement' = "grid"
     /\ \A m \in Moves :
           \/ IF currentMovement = "geo"
              THEN UNCHANGED <<playerCell, playerMarker, storage>>
              ELSE /\ playerCell' = steppedCell(playerCell, m[1], m[2])
                   /\ playerMarker' = cellToLatLng(playerCell')
           \/ ~MoveBy(m[1], m[2])]_vars

\* the watch was cleared after the sensor had placed the player, and the
\* player stands on a cell centre again
C17_Witness ==
  /\ ~geoEnabled
  /\ currentMovement = "grid"
  /\ inFlight
  /\ playerMarker = cellToLatLng(playerCell)
  /\ playerCell = [i |-> 0, j |-> -1]

\* C18 - Cancellation of the sensor strategy: a position callback changes
\* the player position, the visible set or the stored item only while a
\* watch is registered.
C18_NoUpdateAfterDisable ==
  [][(\E pos \in GeoFixes : SensorUpdate(pos)) => geoWatchId # NoWatch]_vars

\* C19 - Sensor unavailable fallback: when geolocation movement was
\* requested and no watch could be registered, the grid strategy stays the
\* active one, and every step command through the facade moves cell and
\* marker by exactly the commanded step.
C19_UnavailableFallback ==
  [][/\ (geoEnabled' /\ geoWatchId' = NoWatch) => currentMovement' = "grid"
     /\ \A m \in Moves :
           \/ ~(geoEnabled /\ geoWatchId = NoWatch)
           \/ /\ playerCell' = steppedCell(playerCell, m[1], m[2])
              /\ playerMarker' = cellToLatLng(playerCell')
           \/ ~MoveBy(m[1], m[2])]_vars

\* the request failed (the arrow buttons are hidden, no watch is registered)
\* and the player stands on the centre of a cell away from the start
C19_Witness ==
  /\ geoEnabled
  /\ geoWatchId = NoWatch
  /\ ~controlsShown
  /\ currentMovement = "grid"
  /\ playerCell = [i |-> 1, j |-> 0]
  /\ playerMarker = cellToLatLng(playerCell)

\* C20 - Sensor error fallback: the error callback of the watch leaves the
\* grid strategy active, so that a following step command moves the player.
C20_ErrorFallback ==
  [][SensorError => currentMovement' = "grid"]_vars

\* C21 - Overlay holds exactly the touched cells: a click that takes the
\* PickedUp or the Merged branch adds its cell to the keys of the overlay, a
\* rejected click leaves the overlay as it is, a new game empties it, and no
\* other step (move, sensor update, drag, popup, toggle, page load) changes
\* its keys.  With the empty overlay of a fresh game, the keys are therefore
\* the cells touched since the last reset.
C21_OverlayIsTouched ==
  [][/\ \/ modifiedCacheState' = <<>>
        \/ ~StartNewGame
     /\ \/ IF popup'.branch \in {"PickedUp", "Merged"}
           THEN MapKeys(modifiedCacheState')
                  = MapKeys(modifiedCacheState) \cup {popup.cell}
           ELSE modifiedCacheState' = modifiedCacheState
        \/ ~ClickPickup
     /\ \/ MapKeys(modifiedCacheState') = MapKeys(modifiedCacheState)
        \/ ClickPickup
        \/ StartNewGame]_vars

\* two cells were merged, one of them has left the view, and the last click
\* was rejected
C21_Witness ==
  /\ Len(modifiedCacheState) = 2
  /\ keyOf(-2, -1) \in MapKeys(modifiedCacheState)
  /\ keyOf(-2, -1) \notin DOMAIN visibleCaches
  /\ popup.cell # <<>>
  /\ popup.branch = "Rejected"

\* C22 - Off-screen unmodified cells hold no state: every key of the overlay,
\* of the value memo cellValues and of visibleCaches is the key of a cell that
\* is in the visible set or has an overlay entry.
C22_OffscreenHoldsNothing ==
  \A k \in MapKeys(modifiedCacheState) \cup DOMAIN cellValues
             \cup DOMAIN visibleCaches :
     k \in DOMAIN visibleCaches \/ k \in MapKeys(modifiedCacheState)

\* C23 - Shared movement path: every arrow step and every sensor update that
\* changes the player's cell or marker leaves, in the same step, the map
\* centred on the marker, visibleCaches recomputed for that centre and marker,
\* and the stored item written from the new cell; and a sensor update puts
\* the player in the cell of the reported position, whether the sensor or
\* the grid strategy is the active one when the callback runs.
C23_SharedMovementPath ==
  [][/\ \/ playerCell' = playerCell /\ playerMarker' = playerMarker
        \/ /\ mapCenter' = playerMarker'
           /\ visibleCaches' =
                updateVisibleCaches(playerMarker', playerMarker',
                                    modifiedCacheState, cellValues,
                                    visibleCaches).visible
           /\ storage' = saveGameState(playerCell', playerHeldCoin',
                                       modifiedCacheState')
        \/ ~(\/ \E m \in Moves : MoveBy(m[1], m[2])
             \/ \E pos \in GeoFixes : SensorUpdate(pos))
     /\ \A pos \in GeoFixes :
           \/ playerCell' = latLngToCell(pos)
           \/ ~SensorUpdate(pos)]_vars

\* a reported position on a cell corner was applied and saved, and the grid
\* strategy is the active one
C23_Witness ==
  /\ playerMarker = [lat |-> 0 - TILE_UNITS, lng |-> 0 - TILE_UNITS]
  /\ playerCell = [i |-> -1, j |-> -1]
  /\ mapCenter = playerMarker
  /\ storage = saveGameState(playerCell, playerHeldCoin, modifiedCacheState)
  /\ currentMovement = "grid"
  /\ ~inFlight

\* C24 - Sensor updates are atomic and not coalesced: every run of the
\* position callback is one step that puts the marker on the reported
\* position and the player in its cell, shows the window around it and
\* stores the new cell, whatever the state before it; so after any sequence
\* of callbacks the player cell is the cell of the last position.
C24_SensorUpdateAtomic ==
  [][\A pos \in GeoFixes :
        \/ /\ playerMarker' = pos
           /\ playerCell' = latLngToCell(pos)
           /\ mapCenter' = pos
           /\ DOMAIN visibleCaches' = windowKeys(pos)
           /\ storage'.present
           /\ storage'.playerCell = latLngToCell(pos)
           /\ Loaded(storage') = Live'
        \/ ~SensorUpdate(pos)]_vars

\* with the watch registered, the position on the cell corner was applied
\* and stored after a cache had gone out of the window, which takes a map
\* centre in the north, and had left its open popup behind
C24_Witness ==
  /\ geoWatchId # NoWatch
  /\ currentMovement = "geo"
  /\ ~geoError
  /\ playerMarker = [lat |-> 0 - TILE_UNITS, lng |-> 0 - TILE_UNITS]
  /\ mapCenter = playerMarker
  /\ storage.present
  /\ storage.playerCell = [i |-> -1, j |-> -1]
  /\ popup.stale

\* C25 - Discrete steps: while the grid strategy is active, the up button
\* adds 1 to i, the down button takes 1 from i, the left button takes 1
\* from j and the right button adds 1 to j, each leaving the other index as
\* it was; and from every cell the player reaches, a step and then the
\* opposite step lead back to that cell.  The cell after a sequence of steps
\* is therefore the start cell plus the sum of the steps.
C25_DiscreteSteps ==
  [][\/ currentMovement # "grid"
     \/ /\ \/ playerCell' = [i |-> playerCell.i + 1, j |-> playerCell.j]
           \/ ~MoveBy(moves.up[1], moves.up[2])
        /\ \/ playerCell' = [i |-> playerCell.i - 1, j |-> playerCell.j]
           \/ ~MoveBy(moves.down[1], moves.down[2])
        /\ \/ playerCell' = [i |-> playerCell.i, j |-> playerCell.j - 1]
           \/ ~MoveBy(moves.left[1], moves.left[2])
        /\ \/ playerCell' = [i |-> playerCell.i, j |-> playerCell.j + 1]
           \/ ~MoveBy(moves.right[1], moves.right[2])
        /\ \A d \in DOMAIN moves :
              steppedCell(steppedCell(playerCell, moves[d][1], moves[d][2]),
                          0 - moves[d][1], 0 - moves[d][2]) = playerCell]_vars

\* the player stands on the centre of a cell that no reported position lies
\* in: arrow steps took the player there
C25_Witness ==
  /\ playerCell = [i |-> -2, j |-> 0]
  /\ playerMarker = cellToLatLng(playerCell)
  /\ \A pos \in GeoFixes : latLngToCell(pos) # playerCell
  /\ storage.present
  /\ storage.playerCell = playerCell

\* C26 - Displayed value matches state: in every reachable state the value
\* shown by the render object of every cache of visibleCaches is the cache's
\* current value: 0 when the overlay marks it picked up, its generated value
\* otherwise.
C26_ShownIsCurrent ==
  \A k \in DOMAIN visibleCaches :
     visibleCaches[k].shown
       = currentValue(modifiedCacheState, cellValues, cellOfKey(k))

\* C27 - Classification uses the player's current position: in every
\* reachable state, the states right after a page load included, the marker
\* from which updateVisibleCaches measures the interaction range lies in the
\* player's cell.
C27_MarkerInPlayerCell ==
  latLngToCell(playerMarker) = playerCell

\* C28 - Won does not block play: in every reachable state where the held
\* coin is WIN_VALUE, each arrow button (under the grid strategy, inside the
\* modelled world) can still move the player one cell and store the new
\* cell, each reported position can still be applied and stored while the
\* watch is registered, and a click of the pickup button of an open popup
\* still runs handleCachePickup to one of its three outcomes.
C28_WonDoesNotBlock ==
  playerHeldCoin = WIN_VALUE
  => /\ \A m \in Moves :
           (/\ currentMovement = "grid"
            /\ steppedCell(playerCell, m[1], m[2]) \in Cells)
           => ENABLED (/\ MoveBy(m[1], m[2])
                       /\ playerCell' = steppedCell(playerCell, m[1], m[2])
                       /\ storage' = saveGameState(playerCell', WIN_VALUE,
                                                   modifiedCacheState))
     /\ \A pos \in GeoFixes :
           geoWatchId # NoWatch
           => ENABLED (/\ SensorUpdate(pos)
                       /\ playerCell' = latLngToCell(pos)
                       /\ storage' = saveGameState(playerCell', WIN_VALUE,
                                                   modifiedCacheState))
     /\ popup.cell # <<>>
        => ENABLED (/\ ClickPickup
                    /\ popup'.branch \in {"PickedUp", "Merged", "Rejected"}
                    /\ storage'.present)

\* after the win the player has stepped to another cell, which is stored,
\* and a click was answered with the rejection
C28_Witness ==
  /\ playerHeldCoin = WIN_VALUE
  /\ winAlerts = 1
  /\ popup.cell # <<>>
  /\ popup.branch = "Rejected"
  /\ ~inRange(playerMarker, cellOfKey(modifiedCacheState[Len(modifiedCacheState)][1]))
  /\ playerMarker = cellToLatLng(playerCell)
  /\ storage = saveGameState(playerCell, WIN_VALUE, modifiedCacheState)

\* C29 - Held coin stays in range: in every state reachable from a first
\* run, a coin is held and its value is one of 1, 2, 4, ..., 128, 256; and
\* every memoized cell value is below WIN_VALUE, so that a held coin of
\* WIN_VALUE matches no cell.
C29_HeldCoinInRange ==
  /\ playerHeldCoin # NullCoin
  /\ playerHeldCoin \in {COIN_VALUES[n] : n \in 1..Len(COIN_VALUES)} \cup {WIN_VALUE}
  /\ \A k \in DOMAIN cellValues : cellValues[k] < WIN_VALUE

\* the coin of value WIN_VALUE is held and every one of the eight caches in
\* view shows 0
C29_Witness ==
  /\ playerHeldCoin = WIN_VALUE
  /\ Cardinality(DOMAIN visibleCaches) = 8
  /\ \A k \in DOMAIN visibleCaches : visibleCaches[k].shown = 0

\* C30 - Each cell merges at most once per game: in a game started fresh,
\* every click of a pickup button on a cell that the overlay marks picked up
\* (the same popup clicked again, a popup opened before the merge, a popup
\* opened after it) is rejected and leaves held coin and overlay as they
\* were; a cell is marked from its first accepted click until the next new
\* game, so it has at most one accepted click in between.
C30_MergeOncePerCell ==
  [][\/ ~isPickedUp(modifiedCacheState, popup.cell)
     \/ /\ popup'.branch = "Rejected"
        /\ popup'.message = MISMATCH
        /\ playerHeldCoin' = playerHeldCoin
        /\ modifiedCacheState' = modifiedCacheState
        /\ isPickedUp(modifiedCacheState', popup.cell)
     \/ ~ClickPickup]_vars

\* the popup in which the coin of value 1 was merged was clicked again, and
\* the click was rejected
C30_Witness ==
  /\ popup.cell = keyOf(-2, -1)
  /\ popup.attached
  /\ isPickedUp(modifiedCacheState, popup.cell)
  /\ popup.branch = "Rejected"
  /\ popup.message = MISMATCH
  /\ playerHeldCoin = 2
  /\ Len(modifiedCacheState) = 1

\* C31 - Frame conditions: an arrow step (moving or ignored), a sensor
\* update and a map drag leave held coin and overlay as they were; a click
\* of a pickup button (accepted or rejected) leaves player cell, marker and
\* active strategy as they were; a click of the geolocation button leaves
\* player cell, marker, held coin and overlay as they were.
C31_FrameConditions ==
  [][/\ \/ /\ playerHeldCoin' = playerHeldCoin
           /\ modifiedCacheState' = modifiedCacheState
        \/ ~(\/ \E m \in Moves : MoveBy(m[1], m[2])
             \/ \E pos \in GeoFixes : SensorUpdate(pos)
             \/ \E center \in PanTargets : MapMove(center))
     /\ \/ /\ playerCell' = playerCell
           /\ playerMarker' = playerMarker
           /\ currentMovement' = currentMovement
        \/ ~ClickPickup
     /\ \/ /\ playerCell' = playerCell
           /\ playerMarker' = playerMarker
           /\ playerHeldCoin' = playerHeldCoin
           /\ modifiedCacheState' = modifiedCacheState
        \/ ~ToggleGeo]_vars

\* with a merged coin in hand and one overlay entry, the sensor strategy is
\* active, the marker is where the sensor put it, and a click was rejected
C31_Witness ==
  /\ currentMovement = "geo"
  /\ playerMarker = [lat |-> 0 - TILE_UNITS, lng |-> 0 - TILE_UNITS]
  /\ playerHeldCoin = 2
  /\ Len(modifiedCacheState) = 1
  /\ popup.cell # <<>>
  /\ popup.branch = "Rejected"

\* C32 - Mode flag consistency: every click of the geolocation button, with
\* or without navigator.geolocation, leaves geoEnabled true exactly when the
\* sensor strategy is the active one and exactly when a watch is registered,
\* and leaves the arrow buttons hidden only when the sensor strategy is the
\* active one.
C32_ModeFlagsAgree ==
  [][ToggleGeo
     => /\ geoEnabled' <=> (currentMovement' = "geo")
        /\ geoEnabled' <=> (geoWatchId' # NoWatch)
        /\ ~controlsShown' => currentMovement' = "geo"]_vars

\* C33 - At most one sensor subscription: in every reachable state at most
\* one watch is registered with navigator.geolocation, the id of every
\* registered watch is the one geoWatchId holds, an id held is the id of a
\* registered watch, and while geolocation movement is disabled no watch is
\* registered.
C33_AtMostOneWatch ==
  /\ Cardinality(watches) <= 1
  /\ \A id \in watches : id = geoWatchId
  /\ geoWatchId # NoWatch => geoWatchId \in watches
  /\ ~geoEnabled => watches = {}

\* a registered watch was cleared while one of its positions was queued, and
\* that position is still to be delivered
C33_Witness ==
  /\ ~geoEnabled
  /\ geoWatchId = NoWatch
  /\ watches = {}
  /\ inFlight
  /\ playerMarker = [lat |-> 0 - TILE_UNITS, lng |-> 0 - TILE_UNITS]

\* what a click of the pickup button of cache k shows an observer: held
\* coin, overlay, outcome and displayed value, computed with the memo given
observedPickup(memo, k) ==
  LET e == pickupEffect(playerHeldCoin, modifiedCacheState, memo, k)
  IN [held |-> e.held, overlay |-> e.overlay, branch |-> e.branch,
      message |-> e.message, shown |-> e.shown]

\* C34 - Memoization is transparent: in every reachable state every entry
\* of cellValues is pickCacheValue of its cell; and for every cell that is
\* memoized, in view or under the open popup, a click of its pickup button
\* has the same held coin, overlay, outcome and displayed value, and a
\* refresh of its tooltip shows the same value, now and with the emptied
\* overlay of a new game, with the memo as with an empty memo, which derives
\* every value anew.  A cell the memo lacks is derived anew by both.  The
\* two engines therefore stay equal on these over every sequence of events.
C34_MemoTransparent ==
  /\ \A k \in DOMAIN cellValues : cellValues[k] = pickCacheValue(k[1], k[2])
  /\ \A k \in DOMAIN cellValues \cup DOMAIN visibleCaches
                \cup ({popup.cell} \ {<<>>}) :
        /\ observedPickup(cellValues, k) = observedPickup(EmptyMap, k)
        /\ tooltipValue(modifiedCacheState, cellValues, k)
             = tooltipValue(modifiedCacheState, EmptyMap, k)
        /\ tooltipValue(<<>>, cellValues, k) = tooltipValue(<<>>, EmptyMap, k)

\* a new game was started after play and the map was dragged: nothing is
\* stored, the overlay is empty, and the memo still holds the value of a
\* cache that is out of view
C34_Witness ==
  /\ ~storage.present
  /\ popup.stale
  /\ modifiedCacheState = <<>>
  /\ playerHeldCoin = 1
  /\ keyOf(-2, 0) \in DOMAIN cellValues
  /\ keyOf(-2, 0) \notin DOMAIN visibleCaches

====
